---- MODULE Spec2Model ----
(***************************************************************************)
(* Model of the Ghostty configuration language server (lsp/src/main.rs)    *)
(* and of the editor extension that locates and launches it (src/lib.rs).  *)
(*                                                                         *)
(* A Rust String is modelled as the sequence of its UTF-8 bytes, because   *)
(* the server indexes and slices lines by byte offset: str::find returns a *)
(* byte index and &line[a..b] panics when a or b is past the end or is not *)
(* on a character boundary.  Option<T> is modelled as a sequence of length *)
(* 0 (None) or 1 (Some).  A Vec is a sequence.                             *)
(***************************************************************************)
EXTENDS Integers, Sequences, FiniteSets, TLC

VARIABLES
    schema,      \* GhosttyLsp.schema, parsed once at construction
    documents,   \* GhosttyLsp.documents: the HashMap<Url, String>
    msg,         \* the notification or request handled last
    response,    \* what the last completion request produced
    line,        \* classifier input: the line text
    character,   \* classifier input: position.character
    context,     \* Option<LineContext>: what parse_line_context returned
    tasks,       \* concurrent handler futures: position and locals of each
    lock,        \* state of the RwLock around documents
    removed,     \* history: documents a close removed and no open has followed
    cached_binary_path,  \* GhosttyExtension.cached_binary_path
    files,       \* the extension's working directory: paths that are files
    platform,    \* zed::current_platform(): <<os, arch>>
    command,     \* Option: Command.command of the last language_server_command
    log          \* history: one record per get_or_download_lsp_binary call

launcher == <<cached_binary_path, files, platform, command, log>>

vars == <<schema, documents, msg, response, line, character, context, tasks, lock, removed,
          cached_binary_path, files, platform, command, log>>

----------------------------------------------------------------------------
(* Option<T> *)

None == <<>>

Some(x) == <<x>>

IsSome(o) == Len(o) = 1

Unwrap(o) == o[1]

----------------------------------------------------------------------------
(* Bytes of the characters the source names, and the strings it spells.     *)

Ch == [tab |-> 9, lf |-> 10, vt |-> 11, ff |-> 12, cr |-> 13, sp |-> 32,
       hash |-> 35, eq |-> 61, upA |-> 65, upZ |-> 90]

\* char::is_whitespace restricted to one-byte characters
IsWhitespace(c) == c \in {Ch.tab, Ch.lf, Ch.vt, Ch.ff, Ch.cr, Ch.sp}

\* a UTF-8 continuation byte 10xxxxxx: never the first byte of a character
IsContinuation(b) == b \in 128..191

\* str::is_char_boundary(i), i a byte index from 0
is_char_boundary(s, i) ==
    \/ i = 0
    \/ i = Len(s)
    \/ i < Len(s) /\ ~IsContinuation(s[i + 1])

\* whether &s[a..b] is a valid slice; when it is not, the slice panics
SliceOk(s, a, b) ==
    /\ a <= b
    /\ b <= Len(s)
    /\ is_char_boundary(s, a)
    /\ is_char_boundary(s, b)

\* &s[a..b], byte indices from 0, end exclusive
Slice(s, a, b) == SubSeq(s, a + 1, b)

Min(S) == CHOOSE x \in S : \A y \in S : x <= y

Max(S) == CHOOSE x \in S : \A y \in S : x >= y

\* str::trim_start
trim_start(s) ==
    LET keep == {i \in 1..Len(s) : ~IsWhitespace(s[i])}
    IN IF keep = {} THEN <<>> ELSE SubSeq(s, Min(keep), Len(s))

\* str::trim_end
trim_end(s) ==
    LET keep == {i \in 1..Len(s) : ~IsWhitespace(s[i])}
    IN IF keep = {} THEN <<>> ELSE SubSeq(s, 1, Max(keep))

\* str::trim
trim(s) == trim_end(trim_start(s))

\* str::to_lowercase on the bytes modelled: A-Z map to a-z, others are kept
to_lowercase(s) ==
    [i \in 1..Len(s) |-> IF s[i] \in Ch.upA..Ch.upZ THEN s[i] + 32 ELSE s[i]]

\* str::contains(pattern)
contains(s, p) ==
    \E i \in 0..(Len(s) - Len(p)) : SubSeq(s, i + 1, i + Len(p)) = p

\* str::starts_with(pattern)
starts_with(s, p) == Len(p) <= Len(s) /\ SubSeq(s, 1, Len(p)) = p

\* str::find(char): Some(byte index of the first occurrence) or None
find(s, c) ==
    LET hits == {i \in 1..Len(s) : s[i] = c}
    IN IF hits = {} THEN None ELSE Some(Min(hits) - 1)

----------------------------------------------------------------------------
(* LineContext and parse_line_context                                       *)

Comment == [tag |-> "Comment", key |-> <<>>, partial |-> <<>>]

Key(partial) == [tag |-> "Key", key |-> <<>>, partial |-> partial]

Value(key, partial) == [tag |-> "Value", key |-> key, partial |-> partial]

\* Result of a call that panicked instead of returning
Panic == [tag |-> "panic", key |-> <<>>, partial |-> <<>>]

KeyBranch(ln, char_pos) ==
    IF SliceOk(ln, 0, char_pos)
    THEN Key(trim(Slice(ln, 0, char_pos)))
    ELSE Panic

\* ValueBranch with the value slice starting at the '=' instead of after it
ValueBranch_FromEq(ln, char_pos, eq_pos) ==
    IF SliceOk(ln, eq_pos, char_pos)
    THEN Value(trim(Slice(ln, 0, eq_pos)),
               trim_start(Slice(ln, eq_pos, char_pos)))
    ELSE Panic

ValueBranch(ln, char_pos, eq_pos) ==
    IF SliceOk(ln, eq_pos + 1, char_pos)
    THEN Value(trim(Slice(ln, 0, eq_pos)),
               trim_start(Slice(ln, eq_pos + 1, char_pos)))
    ELSE Panic

\* char_pos <= eq_pos: the cursor is before or at the equals sign
CursorInKey(char_pos, eq_pos) == char_pos <= eq_pos

NoEqualsBranch(ln, char_pos) ==
    LET end == IF char_pos < Len(ln) THEN char_pos ELSE Len(ln)
    IN IF SliceOk(ln, 0, end) THEN Key(trim(Slice(ln, 0, end))) ELSE Panic

parse_line_context(ln, char_pos) ==
    LET trimmed == trim_start(ln)
        eq == find(ln, Ch.eq)
    IN IF starts_with(trimmed, <<Ch.hash>>) THEN Comment
       ELSE IF IsSome(eq)
            THEN IF CursorInKey(char_pos, Unwrap(eq))
                 THEN KeyBranch(ln, char_pos)
                 ELSE ValueBranch(ln, char_pos, Unwrap(eq))
            ELSE NoEqualsBranch(ln, char_pos)

----------------------------------------------------------------------------
(* The schema and the completion generators.                                *)
(*                                                                         *)
(* schema.options is the HashMap<String, ConfigOption>, kept as the        *)
(* sequence of (key, option) pairs in the map's iteration order, keys      *)
(* distinct.  A CompletionItem keeps the fields the generators set, except *)
(* the documentation text.                                                 *)

Str == [true |-> <<116,114,117,101>>,
        false |-> <<102,97,108,115,101>>,
        z_ |-> <<122,95>>,
        sp_eq_sp |-> <<32,61,32>>,
        hash |-> <<35>>,
        hexLabel |-> <<35,82,82,71,71,66,66>>,
        colon |-> <<58>>,
        plus |-> <<43>>,
        light |-> <<108,105,103,104,116,58>>,
        comboLabel |-> <<108,105,103,104,116,58,46,46,46,44,100,97,114,107,58,46,46,46>>,
        comboInsert |-> <<108,105,103,104,116,58,36,123,49,58,67,97,116,112,112,117,
                          99,99,105,110,32,76,97,116,116,101,125,44,100,97,114,107,58,
                          36,123,50,58,67,97,116,112,112,117,99,99,105,110,32,77,111,
                          99,104,97,125>>]

\* HashMap::get on schema.options
OptionsGet(sch, key) ==
    LET hits == {i \in 1..Len(sch.options) : sch.options[i].key = key}
    IN IF hits = {} THEN None ELSE Some(sch.options[Min(hits)].opt)

simple_completion(label, kind) ==
    [label |-> label, kind |-> kind, detail |-> None, insert_text |-> None,
     insert_text_format |-> None, deprecated |-> FALSE, sort_text |-> None]

\* the parts format_type_detail joins with " | ": the type, "repeatable"
\* when set, and the bracketed platform list when there is one
format_type_detail(opt) ==
    <<opt.option_type>>
    \o (IF opt.repeatable THEN <<"repeatable">> ELSE <<>>)
    \o (IF IsSome(opt.platforms)
        THEN <<"[">> \o Unwrap(opt.platforms) \o <<"]">> ELSE <<>>)

\* KeyMatches by prefix instead of by substring
KeyMatches_Prefix(key, partial) ==
    partial = <<>> \/ starts_with(to_lowercase(key), to_lowercase(partial))

\* the filter of get_key_completions
KeyMatches(key, partial) ==
    partial = <<>> \/ contains(to_lowercase(key), to_lowercase(partial))

\* the sort key a deprecated option gets: format!("z_{}", key)
DeprecatedSortText(key) == Str.z_ \o key

KeyItem(key, opt) ==
    [label |-> key, kind |-> "PROPERTY",
     detail |-> Some(format_type_detail(opt)),
     insert_text |-> Some(key \o Str.sp_eq_sp),
     insert_text_format |-> Some("PLAIN_TEXT"),
     deprecated |-> opt.deprecated,
     sort_text |-> IF opt.deprecated THEN Some(DeprecatedSortText(key)) ELSE None]

get_key_completions(sch, partial) ==
    LET Keep(e) == KeyMatches(e.key, partial)
        kept == SelectSeq(sch.options, Keep)
    IN [i \in 1..Len(kept) |-> KeyItem(kept[i].key, kept[i].opt)]

\* candidates whose lower-cased text contains the partial, each made an item
FilterMap(cands, partial, kind, detail) ==
    LET Keep(v) == partial = <<>> \/ contains(to_lowercase(v), partial)
        kept == SelectSeq(cands, Keep)
    IN [i \in 1..Len(kept) |->
          [simple_completion(kept[i], kind) EXCEPT !.detail = detail]]

BooleanMatches(v, partial) == partial = <<>> \/ contains(v, partial)

get_boolean_completions(partial) ==
    LET Keep(v) == BooleanMatches(v, partial)
        kept == SelectSeq(<<Str.true, Str.false>>, Keep)
    IN [i \in 1..Len(kept) |-> simple_completion(kept[i], "VALUE")]

get_enum_completions(opt, partial) ==
    IF IsSome(opt.enum_values)
    THEN FilterMap(Unwrap(opt.enum_values), partial, "ENUM_MEMBER", None)
    ELSE <<>>

get_colour_completions(sch, partial) ==
    LET named == IF IsSome(sch.types) /\ IsSome(Unwrap(sch.types).color)
                    /\ IsSome(Unwrap(Unwrap(sch.types).color).named_values)
                 THEN Unwrap(Unwrap(Unwrap(sch.types).color).named_values)
                 ELSE <<>>
        hex_item == [simple_completion(Str.hexLabel, "COLOR") EXCEPT
                        !.detail = Some("Hex colour"),
                        !.insert_text = Some(Str.hash)]
    IN FilterMap(named, partial, "COLOR", None)
       \o (IF partial = <<>> \/ contains(Str.hash, partial)
              \/ starts_with(partial, Str.hash)
           THEN <<hex_item>> ELSE <<>>)

\* AfterLastEq taking the text after the first '=' instead
AfterLastEq_First(partial) ==
    LET hits == {i \in 1..Len(partial) : partial[i] = Ch.eq}
    IN IF hits = {} THEN partial
       ELSE SubSeq(partial, Min(hits) + 1, Len(partial))

\* partial.split('=').last(): the text after the last '=', or all of it
AfterLastEq(partial) ==
    LET hits == {i \in 1..Len(partial) : partial[i] = Ch.eq}
    IN IF hits = {} THEN partial
       ELSE SubSeq(partial, Max(hits) + 1, Len(partial))

\* each of a Vec<String> with a suffix appended: format!("{}:", prefix)
WithSuffix(names, suffix) == [i \in 1..Len(names) |-> names[i] \o suffix]

get_keybind_completions(sch, partial) ==
    IF IsSome(sch.types) /\ IsSome(Unwrap(sch.types).keybind)
    THEN LET keybind == Unwrap(Unwrap(sch.types).keybind)
             prefixes == IF IsSome(keybind.prefixes)
                         THEN WithSuffix(Unwrap(keybind.prefixes), Str.colon)
                         ELSE <<>>
             modifiers == IF IsSome(keybind.modifiers)
                          THEN WithSuffix(Unwrap(keybind.modifiers), Str.plus)
                          ELSE <<>>
             actions == IF IsSome(keybind.actions)
                        THEN Unwrap(keybind.actions) ELSE <<>>
             after_eq == trim(AfterLastEq(partial))
         IN FilterMap(prefixes, partial, "KEYWORD", Some("Keybind prefix"))
            \o FilterMap(modifiers, partial, "KEYWORD", Some("Modifier key"))
            \o (IF contains(partial, <<Ch.eq>>) \/ partial = <<>>
                THEN FilterMap(actions, after_eq, "FUNCTION",
                               Some("Keybind action"))
                ELSE <<>>)
    ELSE <<>>

themes ==
    <<<<97,117,116,111>>,
      <<67,97,116,112,112,117,99,99,105,110,32,77,111,99,104,97>>,
      <<67,97,116,112,112,117,99,99,105,110,32,77,97,99,99,104,105,97,116,111>>,
      <<67,97,116,112,112,117,99,99,105,110,32,70,114,97,112,112,101>>,
      <<67,97,116,112,112,117,99,99,105,110,32,76,97,116,116,101>>,
      <<68,114,97,99,117,108,97>>,
      <<71,114,117,118,98,111,120,32,68,97,114,107>>,
      <<71,114,117,118,98,111,120,32,76,105,103,104,116>>,
      <<78,111,114,100>>,
      <<79,110,101,32,68,97,114,107>>,
      <<83,111,108,97,114,105,122,101,100,32,68,97,114,107>>,
      <<83,111,108,97,114,105,122,101,100,32,76,105,103,104,116>>,
      <<84,111,107,121,111,32,78,105,103,104,116>>,
      <<84,111,107,121,111,32,78,105,103,104,116,32,83,116,111,114,109>>,
      <<84,111,109,111,114,114,111,119,32,78,105,103,104,116>>>>

\* get_theme_completions offering the light/dark snippet for every partial
get_theme_completions_Always(partial) ==
    FilterMap(themes, partial, "VALUE", Some("Built-in theme"))
    \o << [simple_completion(Str.comboLabel, "SNIPPET") EXCEPT
              !.detail = Some("Light/dark theme combination"),
              !.insert_text = Some(Str.comboInsert),
              !.insert_text_format = Some("SNIPPET")] >>

get_theme_completions(partial) ==
    LET combo == [simple_completion(Str.comboLabel, "SNIPPET") EXCEPT
                     !.detail = Some("Light/dark theme combination"),
                     !.insert_text = Some(Str.comboInsert),
                     !.insert_text_format = Some("SNIPPET")]
    IN FilterMap(themes, partial, "VALUE", Some("Built-in theme"))
       \o (IF partial = <<>> \/ contains(Str.light, partial)
           THEN <<combo>> ELSE <<>>)

get_example_completions(opt, partial) ==
    IF IsSome(opt.examples)
    THEN FilterMap(Unwrap(opt.examples), partial, "VALUE", Some("Example value"))
    ELSE <<>>

\* PartialLower without the trim
PartialLower_NoTrim(partial) == to_lowercase(partial)

\* partial.to_lowercase().trim(): what the generators filter by
PartialLower(partial) == trim(to_lowercase(partial))

get_value_completions(sch, key, partial) ==
    LET found == OptionsGet(sch, key)
        opt == Unwrap(found)
        partial_lower == PartialLower(partial)
    IN IF ~IsSome(found) THEN <<>>
       ELSE CASE opt.option_type = "boolean" -> get_boolean_completions(partial_lower)
              [] opt.option_type = "enum" -> get_enum_completions(opt, partial_lower)
              [] opt.option_type = "color" -> get_colour_completions(sch, partial_lower)
              [] opt.option_type = "keybind" -> get_keybind_completions(sch, partial_lower)
              [] opt.option_type = "theme" -> get_theme_completions(partial_lower)
              [] OTHER -> get_example_completions(opt, partial_lower)

\* A handler's reply: Ok(Some(Array(items))), or the panic that replaced it
Ok(items) == [tag |-> "ok", items |-> items]

Panicked == [tag |-> "panic", items |-> <<>>]

\* completion, from the classification of the line on: lines 441-449
CompleteLine(sch, ln, char_pos) ==
    LET ctx == parse_line_context(ln, char_pos)
    IN CASE ctx.tag = "panic" -> Panicked
         [] ctx.tag = "Comment" -> Ok(<<>>)
         [] ctx.tag = "Key" -> Ok(get_key_completions(sch, ctx.partial))
         [] ctx.tag = "Value" -> Ok(get_value_completions(sch, ctx.key, ctx.partial))

----------------------------------------------------------------------------
(* Inputs: schemas, lines and texts the specifications draw from.           *)

\* Longest line drawn from LineAlphabet
MaxLineLen == 4

\* How far past the end of the line the cursor offset may lie
MaxBeyond == 2

\* Most options a drawn schema holds
MaxOptions == 2

\* Longest line typed in the key region when schemas are drawn
MaxPartialLen == 2

\* all sequences over S of length 0..n
SeqsUpTo(S, n) == UNION {[1..k -> S] : k \in 0..n}

\* well-formed UTF-8 over the bytes used: C3 A9 is the one two-byte character
ValidUtf8(s) ==
    \A i \in 1..Len(s) :
        /\ s[i] = 195 => (i < Len(s) /\ s[i + 1] = 169)
        /\ s[i] = 169 => (i > 1 /\ s[i - 1] = 195)

\* ' ', '#', '=', 'k', 't' and the two bytes of U+00E9
LineAlphabet == {32, 35, 61, 107, 116, 195, 169}

ExampleLines ==
    { <<102,111,110,116,45,115,105,122,101,32,61,32,49,50>>,  \* "font-size = 12"
      <<32,32,35,32,100,105,115,97,98,108,101,100>>,          \* "  # disabled"
      <<107,32,61,32,116,114>>,                               \* "k = tr"
      <<107,32,61,32,116,114,32>>,                            \* "k = tr "
      <<107,61,84,82>>,                                       \* "k=TR"
      <<107,61,116,32>>,                                      \* "k=t "
      <<107,61,102,32,61>> }                                  \* "k=f ="

BoundedLines == {s \in SeqsUpTo(LineAlphabet, MaxLineLen) : ValidUtf8(s)}

NoOpt == [option_type |-> "string", deprecated |-> FALSE, repeatable |-> FALSE,
          enum_values |-> None, examples |-> None, platforms |-> None]

SampleTypes ==
    [keybind |-> Some([prefixes |-> Some(<< <<103,108,111,98,97,108>> >>),    \* global
                       modifiers |-> Some(<< <<99,116,114,108>> >>),          \* ctrl
                       actions |-> Some(<< <<114,101,108,111,97,100,95,99,
                                             111,110,102,105,103>> >>)]),     \* reload_config
     color |-> Some([named_values |-> Some(<< <<114,101,100>> >>)])]          \* red

\* k: boolean, t: theme, kk: keybind, tt: color, kt: enum, tk: string,
\* font-size: number
SampleSchema ==
    [options |->
        << [key |-> <<107>>, opt |-> [NoOpt EXCEPT !.option_type = "boolean"]],
           [key |-> <<116>>, opt |-> [NoOpt EXCEPT !.option_type = "theme"]],
           [key |-> <<107,107>>,
            opt |-> [NoOpt EXCEPT !.option_type = "keybind", !.repeatable = TRUE,
                                  !.platforms = Some(<<"macos">>)]],
           [key |-> <<116,116>>, opt |-> [NoOpt EXCEPT !.option_type = "color"]],
           [key |-> <<107,116>>,
            opt |-> [NoOpt EXCEPT !.option_type = "enum", !.deprecated = TRUE,
                                  !.enum_values = Some(<< <<116>>, <<84,107>> >>)]],
           [key |-> <<116,107>>,
            opt |-> [NoOpt EXCEPT !.examples = Some(<< <<107,32,116>> >>)]],
           [key |-> <<102,111,110,116,45,115,105,122,101>>,
            opt |-> [NoOpt EXCEPT !.option_type = "number",
                                  !.examples = Some(<< <<49,50>> >>)]] >>,
     types |-> Some(SampleTypes)]

\* a schema with no options and no type definitions
EmptySchema == [options |-> <<>>, types |-> None]

\* keys of drawn schemas: "a", "za", "Az", "zz"
KeyPool == { <<97>>, <<122,97>>, <<65,122>>, <<122,122>> }

OptPool == { [NoOpt EXCEPT !.option_type = "boolean", !.deprecated = d] :
                d \in BOOLEAN }

Distinct(s) == \A i, j \in 1..Len(s) : i # j => s[i].key # s[j].key

\* every schema of at most MaxOptions options, in every iteration order
Schemas ==
    { [options |-> o, types |-> None] :
        o \in {q \in SeqsUpTo([key : KeyPool, opt : OptPool], MaxOptions) :
                  Distinct(q)} }

\* 'A', 'a', 'z'
KeyAlphabet == {65, 97, 122}

\* HashMap::new()
EmptyMap == [u \in {} |-> <<>>]

NoMsg == [kind |-> "none", uri |-> "", changes |-> <<>>, line |-> 0, character |-> 0]

\* RwLock::new: no writer, no readers
Unlocked == [writer |-> None, readers |-> {}]

NoResponse == [tag |-> "none", items |-> <<>>]

----------------------------------------------------------------------------
(* The classifier and the generators applied to one line: the part of the   *)
(* completion handler after the line is fetched.                            *)

CompleteOnLine ==
    /\ context = None
    /\ context' = Some(parse_line_context(line, character))
    /\ response' = CompleteLine(schema, line, character)
    /\ UNCHANGED launcher
    /\ UNCHANGED <<schema, documents, msg, line, character, tasks, lock, removed>>

\* GhosttyExtension::new, with nothing installed and no command asked for
LauncherIdle ==
    /\ cached_binary_path = None
    /\ files = {}
    /\ platform = <<"Linux", "X8664">>
    /\ command = None
    /\ log = <<>>

\* GhosttyLsp::new: no document, no message handled, no handler running
ServerIdle ==
    /\ documents = EmptyMap
    /\ msg = NoMsg
    /\ response = NoResponse
    /\ context = None
    /\ tasks = <<>>
    /\ lock = Unlocked
    /\ removed = {}

IdleStore == LauncherIdle /\ ServerIdle

InitClassify ==
    /\ IdleStore
    /\ schema = SampleSchema
    /\ line \in BoundedLines \cup ExampleLines
    /\ character \in 0..(Len(line) + MaxBeyond)

SpecClassify == InitClassify /\ [][CompleteOnLine]_vars

InitKeys ==
    /\ IdleStore
    /\ schema \in Schemas
    /\ line \in SeqsUpTo(KeyAlphabet, MaxPartialLen)
    /\ character = Len(line)

SpecKeys == InitKeys /\ [][CompleteOnLine]_vars

----------------------------------------------------------------------------
(* Properties of the classifier and of value completion.                    *)

Labels(items) == [i \in 1..Len(items) |-> items[i].label]

Classified == IsSome(context)

Ctx == Unwrap(context)

FontSizeLine == <<102,111,110,116,45,115,105,122,101,32,61,32,49,50>>

FontSizeKey == <<102,111,110,116,45,115,105,122,101>>

\* C7 as stated: on "font-size = 12", offset 4 classifies as Key("font") and
\* offset 13 as Value(key = "font-size", partial = "12").
C7_FontSizeExample_AsStated ==
    (Classified /\ line = FontSizeLine) =>
        /\ character = 4 => Ctx = Key(<<102,111,110,116>>)
        /\ character = 13 => Ctx = Value(FontSizeKey, <<49,50>>)

\* C7 amended: on "font-size = 12", offset 4 classifies as Key("font"),
\* offset 13 as Value(key = "font-size", partial = "1"), and offset 14, the
\* end of the line, as Value(key = "font-size", partial = "12").
C7_FontSizeExample ==
    (Classified /\ line = FontSizeLine) =>
        /\ character = 4 => Ctx = Key(<<102,111,110,116>>)
        /\ character = 13 => Ctx = Value(FontSizeKey, <<49>>)
        /\ character = 14 => Ctx = Value(FontSizeKey, <<49,50>>)

C7_Witness ==
    /\ Classified
    /\ line = FontSizeLine
    /\ character = 13
    /\ Ctx.tag = "Value"
    /\ Ctx.partial = <<49>>

\* positions (from 0) of the '=' characters of a line
EqPositions(ln) == {i \in 0..(Len(ln) - 1) : ln[i + 1] = 61}

\* the classification section 4.3 prescribes for a line and an offset
Prescribed(ln, off) ==
    IF \E n \in 0..Len(ln) :
          /\ \A i \in 1..n : IsWhitespace(ln[i])
          /\ n < Len(ln)
          /\ ln[n + 1] = 35
    THEN Comment
    ELSE IF EqPositions(ln) = {} \/ off <= Min(EqPositions(ln))
         THEN Key(trim(SubSeq(ln, 1, off)))
         ELSE Value(trim(SubSeq(ln, 1, Min(EqPositions(ln)))),
                    trim_start(SubSeq(ln, Min(EqPositions(ln)) + 2, off)))

\* C10: for every line and every offset not past its end the classifier
\* returns the prescribed classification (Comment, Key or Value), and a
\* Comment line completes to the empty list.
C10_ClassifierExact ==
    (Classified /\ character <= Len(line)) =>
        /\ Ctx = Prescribed(line, character)
        /\ Ctx = Comment => response = Ok(<<>>)

\* On lines of one-byte characters the classifier is exactly as prescribed.
ClassifierExactOnAscii ==
    (Classified /\ character <= Len(line) /\ \A i \in 1..Len(line) : line[i] < 128)
        => /\ Ctx = Prescribed(line, character)
           /\ Ctx = Comment => response = Ok(<<>>)

IsBooleanValue ==
    /\ Classified
    /\ Ctx.tag = "Value"
    /\ IsSome(OptionsGet(schema, Ctx.key))
    /\ Unwrap(OptionsGet(schema, Ctx.key)).option_type = "boolean"

\* the text between the first '=' and the cursor, leading whitespace stripped
TypedValue == trim_start(SubSeq(line, Min(EqPositions(line)) + 2, character))

BooleansContaining(p) ==
    LET Has(v) == \E i \in 0..(Len(v) - Len(p)) : SubSeq(v, i + 1, i + Len(p)) = p
    IN SelectSeq(<<Str.true, Str.false>>, Has)

\* C8 as stated: boolean value completion returns those of "true", "false"
\* that contain the lower-cased typed value, trailing whitespace included.
C8_Boolean_AsStated ==
    IsBooleanValue =>
        /\ Ctx.partial = TypedValue
        /\ response.tag = "ok"
        /\ Labels(response.items) = BooleansContaining(to_lowercase(TypedValue))

\* C8 amended: boolean value completion returns exactly those of "true",
\* "false" that contain, ignoring case, the typed value with its trailing
\* whitespace removed as well; the typed value is the text between the first
\* '=' and the cursor with leading whitespace stripped.
C8_Boolean ==
    IsBooleanValue =>
        /\ Ctx.partial = TypedValue
        /\ response.tag = "ok"
        /\ Labels(response.items) = BooleansContaining(trim_end(to_lowercase(TypedValue)))

C8_Witness ==
    /\ IsBooleanValue
    /\ line = <<107,32,61,32,116,114,32>>
    /\ character = 7
    /\ Labels(response.items) = <<Str.true>>

----------------------------------------------------------------------------
(* The language server: the document store and its four handlers, each      *)
(* handled to completion before the next message.                           *)

\* Most payloads one change notification carries
MaxBatch == 2

\* Largest position.line of a completion request
MaxLineNo == 2

\* Largest position.character of a completion request
MaxCharacter == 4

Urls == {"file:///a", "file:///b"}

\* "", "k=t", "#c\r\nk = \n\u{e9}"
DocTexts ==
    { <<>>,
      <<107,61,116>>,
      <<35,99,13,10,107,32,61,32,10,195,169>> }

\* HashMap::insert
MapInsert(docs, uri, text) ==
    [u \in DOMAIN docs \cup {uri} |-> IF u = uri THEN text ELSE docs[u]]

\* HashMap::remove
MapRemove(docs, uri) == [u \in DOMAIN docs \ {uri} |-> docs[u]]

\* HashMap::get(..).cloned()
MapGet(docs, uri) == IF uri \in DOMAIN docs THEN Some(docs[uri]) ELSE None

\* str::lines: split at "\n", a "\r" before it dropped, no empty last line
RECURSIVE lines(_)
lines(text) ==
    IF text = <<>> THEN <<>>
    ELSE LET nl == {i \in 1..Len(text) : text[i] = Ch.lf}
         IN IF nl = {} THEN <<text>>
            ELSE LET raw == SubSeq(text, 1, Min(nl) - 1)
                     ln == IF raw # <<>> /\ raw[Len(raw)] = Ch.cr
                           THEN SubSeq(raw, 1, Len(raw) - 1) ELSE raw
                 IN <<ln>> \o lines(SubSeq(text, Min(nl) + 1, Len(text)))

\* AppliedChange taking the first payload of the batch instead of the last
AppliedChange_First(changes) ==
    IF changes = <<>> THEN None ELSE Some(changes[1])

\* the payload of a change notification that is applied:
\* content_changes.into_iter().last()
AppliedChange(changes) ==
    IF changes = <<>> THEN None ELSE Some(changes[Len(changes)])

\* FallbackReply with no candidates
FallbackReply_Empty(sch) == Ok(<<>>)

\* the reply when the store holds no text for the document, or the text has
\* no such line
FallbackReply(sch) == Ok(get_key_completions(sch, <<>>))

\* completion once the snapshot of the document is taken: lines 421-449
Complete(sch, content, line_num, char_pos) ==
    IF ~IsSome(content) THEN FallbackReply(sch)
    ELSE LET ls == lines(Unwrap(content))
         IN IF line_num >= Len(ls) THEN FallbackReply(sch)
            ELSE CompleteLine(sch, ls[line_num + 1], char_pos)

\* a panic in a handler unwinds through Server::serve and ends the process
Alive == response.tag # "panic"

did_open(uri, text) ==
    /\ Alive
    /\ documents' = MapInsert(documents, uri, text)
    /\ msg' = [kind |-> "open", uri |-> uri, changes |-> <<text>>,
               line |-> 0, character |-> 0]
    /\ removed' = removed \ {uri}
    /\ UNCHANGED launcher
    /\ UNCHANGED <<schema, response, line, character, context, tasks, lock>>

did_change(uri, changes) ==
    /\ Alive
    /\ documents' = IF IsSome(AppliedChange(changes))
                    THEN MapInsert(documents, uri, Unwrap(AppliedChange(changes)))
                    ELSE documents
    /\ msg' = [kind |-> "change", uri |-> uri, changes |-> changes,
               line |-> 0, character |-> 0]
    /\ UNCHANGED launcher
    /\ UNCHANGED <<schema, response, line, character, context, tasks, lock, removed>>

did_close(uri) ==
    /\ Alive
    /\ documents' = MapRemove(documents, uri)
    /\ msg' = [kind |-> "close", uri |-> uri, changes |-> <<>>,
               line |-> 0, character |-> 0]
    /\ removed' = IF uri \in DOMAIN documents THEN removed \cup {uri} ELSE removed
    /\ UNCHANGED launcher
    /\ UNCHANGED <<schema, response, line, character, context, tasks, lock>>

completion(uri, line_num, char_pos) ==
    /\ Alive
    /\ response' = Complete(schema, MapGet(documents, uri), line_num, char_pos)
    /\ msg' = [kind |-> "completion", uri |-> uri, changes |-> <<>>,
               line |-> line_num, character |-> char_pos]
    /\ UNCHANGED launcher
    /\ UNCHANGED <<schema, documents, line, character, context, tasks, lock, removed>>

ServerSchemas == {SampleSchema, EmptySchema}

Init ==
    /\ LauncherIdle
    /\ schema \in ServerSchemas
    /\ documents = EmptyMap
    /\ msg = NoMsg
    /\ response = NoResponse
    /\ line = <<>>
    /\ character = 0
    /\ context = None
    /\ tasks = <<>>
    /\ lock = Unlocked
    /\ removed = {}

Next ==
    \/ \E uri \in Urls, text \in DocTexts : did_open(uri, text)
    \/ \E uri \in Urls, changes \in SeqsUpTo(DocTexts, MaxBatch) :
          did_change(uri, changes)
    \/ \E uri \in Urls : did_close(uri)
    \/ \E uri \in Urls, line_num \in 0..MaxLineNo, char_pos \in 0..MaxCharacter :
          completion(uri, line_num, char_pos)

Spec == Init /\ [][Next]_vars

----------------------------------------------------------------------------
(* Properties of the document store and of the completion handler.          *)

\* snapshot(id): the text a completion request would read
Snapshot(docs, uri) == IF uri \in DOMAIN docs THEN <<docs[uri]>> ELSE <<>>

\* C1: after an open the snapshot of the document is the opened text; after
\* a change it is the last payload of the batch (an empty batch leaves it as
\* it was); after a close it is absent; no notification or request touches
\* the snapshot of another document.
C1_RoundTrip ==
    [][ /\ msg'.kind = "open" =>
             Snapshot(documents', msg'.uri) = <<msg'.changes[1]>>
        /\ (msg'.kind = "change" /\ msg'.changes # <<>>) =>
             Snapshot(documents', msg'.uri) = <<msg'.changes[Len(msg'.changes)]>>
        /\ (msg'.kind = "change" /\ msg'.changes = <<>>) =>
             Snapshot(documents', msg'.uri) = Snapshot(documents, msg'.uri)
        /\ msg'.kind = "close" => Snapshot(documents', msg'.uri) = <<>>
        /\ msg'.kind = "completion" => documents' = documents
        /\ \A u \in Urls \ {msg'.uri} :
             Snapshot(documents', u) = Snapshot(documents, u) ]_vars

C1_Witness ==
    /\ msg.kind = "change"
    /\ Len(msg.changes) = 2
    /\ msg.changes[1] # msg.changes[2]
    /\ Snapshot(documents, msg.uri) = <<msg.changes[2]>>

\* C3: every completion request is answered with a list of candidates; none
\* fails or aborts.
C3_CompletionTotal == msg.kind = "completion" => response.tag = "ok"

\* C4: a completion request for a document the store does not hold is
\* answered, whatever the position, with exactly one item per schema
\* option: the list key completion gives for the empty partial.
C4_UnknownDocument ==
    (msg.kind = "completion" /\ msg.uri \notin DOMAIN documents) =>
        /\ response.tag = "ok"
        /\ Len(response.items) = Len(schema.options)
        /\ \A i \in 1..Len(schema.options) :
             Cardinality({j \in 1..Len(response.items) :
                            response.items[j].label = schema.options[i].key}) = 1
        /\ response.items = get_key_completions(schema, <<>>)

C4_Witness ==
    /\ msg.kind = "completion"
    /\ msg.uri \notin DOMAIN documents
    /\ msg.line > 0
    /\ msg.character > 0
    /\ DOMAIN documents # {}
    /\ schema.options # <<>>
    /\ Len(response.items) = Len(schema.options)

\* C9: once a close has removed a document's entry, its snapshot stays
\* absent until the document is opened again: no other notification, a
\* change in particular, creates the entry.
C9_NoResurrection == \A u \in removed : Snapshot(documents, u) = <<>>

----------------------------------------------------------------------------
(* The handlers as concurrent futures.  Each takes the RwLock around the    *)
(* map for the statement that touches it and holds it no longer.  Storing   *)
(* a String into a map slot writes several words, so between its first and *)
(* last word the slot holds part of the new value and part of the old one. *)

\* Handlers in flight at once
NumTasks == 2

Procs == 1..NumTasks

\* "k=t", "t=k"
ConcTexts == { <<107,61,116>>, <<116,61,107>> }

ConcUrls == {"file:///a"}

\* the (line, character) positions of concurrent completion requests
ConcPositions == { <<0, 1>>, <<0, 3>>, <<1, 0>> }

IdleTask == [pc |-> "idle", kind |-> "none", uri |-> "", text |-> <<>>,
             snapshot |-> None, line |-> 0, character |-> 0]

\* RwLock::read succeeds without waiting
CanRead_Always(l) == TRUE

\* RwLock::read succeeds when no writer holds the lock
CanRead(l) == l.writer = None

\* RwLock::write succeeds when nobody holds the lock
CanWrite(l) == l.writer = None /\ l.readers = {}

\* a slot whose first words are already those of the new value
Torn(old, new) ==
    LET h == (Len(new) + 1) \div 2
    IN SubSeq(new, 1, h) \o SubSeq(old, h + 1, Len(old))

StartOpen(p, uri, text) ==
    /\ Alive
    /\ tasks[p].pc = "idle"
    /\ tasks' = [tasks EXCEPT ![p] = [IdleTask EXCEPT !.pc = "write_wait",
                    !.kind = "open", !.uri = uri, !.text = text]]
    /\ UNCHANGED launcher
    /\ UNCHANGED <<schema, documents, msg, response, line, character, context,
                   lock, removed>>

StartChange(p, uri, changes) ==
    /\ Alive
    /\ tasks[p].pc = "idle"
    /\ tasks' = IF IsSome(AppliedChange(changes))
                THEN [tasks EXCEPT ![p] = [IdleTask EXCEPT !.pc = "write_wait",
                         !.kind = "change", !.uri = uri,
                         !.text = Unwrap(AppliedChange(changes))]]
                ELSE tasks
    /\ UNCHANGED launcher
    /\ UNCHANGED <<schema, documents, msg, response, line, character, context,
                   lock, removed>>

StartClose(p, uri) ==
    /\ Alive
    /\ tasks[p].pc = "idle"
    /\ tasks' = [tasks EXCEPT ![p] = [IdleTask EXCEPT !.pc = "remove_wait",
                    !.kind = "close", !.uri = uri]]
    /\ UNCHANGED launcher
    /\ UNCHANGED <<schema, documents, msg, response, line, character, context,
                   lock, removed>>

StartCompletion(p, uri, line_num, char_pos) ==
    /\ Alive
    /\ tasks[p].pc = "idle"
    /\ tasks' = [tasks EXCEPT ![p] = [IdleTask EXCEPT !.pc = "read_wait",
                    !.kind = "completion", !.uri = uri, !.line = line_num,
                    !.character = char_pos]]
    /\ UNCHANGED launcher
    /\ UNCHANGED <<schema, documents, msg, response, line, character, context,
                   lock, removed>>

\* self.documents.write()
AcquireWrite(p) ==
    /\ Alive
    /\ tasks[p].pc \in {"write_wait", "remove_wait"}
    /\ CanWrite(lock)
    /\ lock' = [lock EXCEPT !.writer = Some(p)]
    /\ tasks' = [tasks EXCEPT ![p].pc =
                    IF tasks[p].pc = "write_wait" THEN "insert" ELSE "remove"]
    /\ UNCHANGED launcher
    /\ UNCHANGED <<schema, documents, msg, response, line, character, context,
                   removed>>

\* docs.insert(uri, text): the first words of the slot are written
InsertBegin(p) ==
    /\ Alive
    /\ tasks[p].pc = "insert"
    /\ documents' = MapInsert(documents, tasks[p].uri,
                       Torn(IF tasks[p].uri \in DOMAIN documents
                            THEN documents[tasks[p].uri] ELSE <<>>,
                            tasks[p].text))
    /\ tasks' = [tasks EXCEPT ![p].pc = "insert_end"]
    /\ UNCHANGED launcher
    /\ UNCHANGED <<schema, msg, response, line, character, context, lock, removed>>

\* docs.insert(uri, text) completes and the write guard is dropped
InsertEnd(p) ==
    /\ Alive
    /\ tasks[p].pc = "insert_end"
    /\ documents' = MapInsert(documents, tasks[p].uri, tasks[p].text)
    /\ lock' = [lock EXCEPT !.writer = None]
    /\ tasks' = [tasks EXCEPT ![p] = IdleTask]
    /\ UNCHANGED launcher
    /\ UNCHANGED <<schema, msg, response, line, character, context, removed>>

\* docs.remove(&uri) and the write guard is dropped
Remove(p) ==
    /\ Alive
    /\ tasks[p].pc = "remove"
    /\ documents' = MapRemove(documents, tasks[p].uri)
    /\ lock' = [lock EXCEPT !.writer = None]
    /\ tasks' = [tasks EXCEPT ![p] = IdleTask]
    /\ UNCHANGED launcher
    /\ UNCHANGED <<schema, msg, response, line, character, context, removed>>

\* self.documents.read().unwrap()
AcquireRead(p) ==
    /\ Alive
    /\ tasks[p].pc = "read_wait"
    /\ CanRead(lock)
    /\ lock' = [lock EXCEPT !.readers = @ \cup {p}]
    /\ tasks' = [tasks EXCEPT ![p].pc = "get"]
    /\ UNCHANGED launcher
    /\ UNCHANGED <<schema, documents, msg, response, line, character, context,
                   removed>>

\* docs.get(uri).cloned() and the read guard is dropped
GetSnapshot(p) ==
    /\ Alive
    /\ tasks[p].pc = "get"
    /\ tasks' = [tasks EXCEPT ![p].pc = "respond",
                              ![p].snapshot = MapGet(documents, tasks[p].uri)]
    /\ lock' = [lock EXCEPT !.readers = @ \ {p}]
    /\ UNCHANGED launcher
    /\ UNCHANGED <<schema, documents, msg, response, line, character, context,
                   removed>>

\* the rest of completion, on the snapshot
Respond(p) ==
    /\ Alive
    /\ tasks[p].pc = "respond"
    /\ response' = Complete(schema, tasks[p].snapshot, tasks[p].line,
                            tasks[p].character)
    /\ tasks' = [tasks EXCEPT ![p] = IdleTask]
    /\ UNCHANGED launcher
    /\ UNCHANGED <<schema, documents, msg, line, character, context, lock, removed>>

InitConc ==
    /\ LauncherIdle
    /\ schema = SampleSchema
    /\ documents = EmptyMap
    /\ msg = NoMsg
    /\ response = NoResponse
    /\ line = <<>>
    /\ character = 0
    /\ context = None
    /\ tasks = [p \in Procs |-> IdleTask]
    /\ lock = Unlocked
    /\ removed = {}

NextConc ==
    \E p \in Procs :
        \/ \E uri \in ConcUrls, text \in ConcTexts : StartOpen(p, uri, text)
        \/ \E uri \in ConcUrls, changes \in SeqsUpTo(ConcTexts, MaxBatch) :
              StartChange(p, uri, changes)
        \/ \E uri \in ConcUrls : StartClose(p, uri)
        \/ \E uri \in ConcUrls, pos \in ConcPositions :
              StartCompletion(p, uri, pos[1], pos[2])
        \/ AcquireWrite(p)
        \/ InsertBegin(p)
        \/ InsertEnd(p)
        \/ Remove(p)
        \/ AcquireRead(p)
        \/ GetSnapshot(p)
        \/ Respond(p)

SpecConc == InitConc /\ [][NextConc]_vars

InWrite(p) == tasks[p].pc \in {"insert", "insert_end", "remove"}

\* C2: under every interleaving of the handlers, a completion request's
\* snapshot is absent or the whole text of one payload; whenever no handler
\* is inside an update the store holds only whole payloads; at most one
\* handler is inside an update, and none reads the map meanwhile.
C2_AtomicUpsert ==
    /\ \A p \in Procs :
          tasks[p].pc = "respond" =>
             tasks[p].snapshot \in {None} \cup {Some(t) : t \in ConcTexts}
    /\ (\A p \in Procs : ~InWrite(p)) =>
          \A u \in DOMAIN documents : documents[u] \in ConcTexts
    /\ Cardinality({p \in Procs : InWrite(p)}) <= 1
    /\ (\E p \in Procs : InWrite(p)) => \A q \in Procs : tasks[q].pc # "get"

C2_Witness ==
    \E p, q \in Procs :
        /\ tasks[p].pc = "insert_end"
        /\ documents[tasks[p].uri] \notin ConcTexts
        /\ tasks[q].pc = "read_wait"
        /\ tasks[q].uri = tasks[p].uri

----------------------------------------------------------------------------
(* Properties of key completion.                                            *)

\* byte-wise lexicographic order of strings, the order a client sorts by
StrLess(a, b) ==
    \/ Len(a) < Len(b) /\ SubSeq(b, 1, Len(a)) = a
    \/ \E i \in 1..(IF Len(a) < Len(b) THEN Len(a) ELSE Len(b)) :
          /\ SubSeq(a, 1, i - 1) = SubSeq(b, 1, i - 1)
          /\ a[i] < b[i]

\* what an item is ordered by: its sort key when it has one, else its label
SortKey(item) ==
    IF IsSome(item.sort_text) THEN Unwrap(item.sort_text) ELSE item.label

\* C5: in every list key completion returns, every deprecated option sorts
\* strictly after every option that is not deprecated.
C5_DeprecatedLast ==
    response.tag = "ok" =>
        \A i, j \in 1..Len(response.items) :
            (response.items[i].deprecated /\ ~response.items[j].deprecated)
               => StrLess(SortKey(response.items[j]), SortKey(response.items[i]))

IsKeyCompletion == Classified /\ Ctx.tag = "Key" /\ response.tag = "ok"

SchemaKeys == {schema.options[i].key : i \in 1..Len(schema.options)}

ItemLabels == {response.items[i].label : i \in 1..Len(response.items)}

\* one item per option when nothing is typed; never an item twice; never an
\* item that the empty partial would not give
KeyCompletionShape ==
    /\ Ctx.partial = <<>> =>
          /\ Len(response.items) = Len(schema.options)
          /\ ItemLabels = SchemaKeys
    /\ Cardinality(ItemLabels) = Len(response.items)
    /\ \A i \in 1..Len(response.items) :
          \E j \in 1..Len(schema.options) :
             /\ response.items[i].label = schema.options[j].key
             /\ response.items[i].insert_text = <<schema.options[j].key \o <<32,61,32>>>>

\* C6 as stated: for a non-empty partial the items are those of the options
\* whose key contains the lower-cased partial.
C6_KeyFilter_AsStated ==
    IsKeyCompletion =>
        /\ KeyCompletionShape
        /\ Ctx.partial # <<>> =>
              ItemLabels = {k \in SchemaKeys : contains(k, to_lowercase(Ctx.partial))}

\* C6 amended: key completion with an empty partial returns exactly one item
\* per option key; for a non-empty partial the items are those of the
\* options whose lower-cased key contains the lower-cased partial, so
\* filtering only shrinks the set.
C6_KeyFilter ==
    IsKeyCompletion =>
        /\ KeyCompletionShape
        /\ Ctx.partial # <<>> =>
              ItemLabels = {k \in SchemaKeys :
                              contains(to_lowercase(k), to_lowercase(Ctx.partial))}

C6_Witness ==
    /\ IsKeyCompletion
    /\ Len(schema.options) = 2
    /\ Len(response.items) = 1
    /\ response.items[1].label = <<65,122>>
    /\ Ctx.partial = <<97>>

----------------------------------------------------------------------------
(* Value completion for keybind and theme options, on lines "key=value"     *)
(* with the cursor at the end of the line.                                  *)

\* Longest value drawn from ValueAlphabet
MaxValueLen == 3

\* ' ', '=', ':', 'R', 'e', 'g', 'i', 'l', 'r'
ValueAlphabet == {32, 61, 58, 82, 101, 103, 105, 108, 114}

\* prefixes global, all; modifiers ctrl, shift; actions reload_config, REL, quit
KeybindTypes ==
    [keybind |-> Some([prefixes |-> Some(<< <<103,108,111,98,97,108>>, <<97,108,108>> >>),
                       modifiers |-> Some(<< <<99,116,114,108>>, <<115,104,105,102,116>> >>),
                       actions |-> Some(<< <<114,101,108,111,97,100,95,99,111,110,102,105,103>>,
                                           <<82,69,76>>,
                                           <<113,117,105,116>> >>)]),
     color |-> None]

\* kk: keybind, t: theme
ValueOptions ==
    << [key |-> <<107,107>>, opt |-> [NoOpt EXCEPT !.option_type = "keybind"]],
       [key |-> <<116>>, opt |-> [NoOpt EXCEPT !.option_type = "theme"]] >>

ValueSchemas ==
    { [options |-> ValueOptions, types |-> Some(KeybindTypes)],
      [options |-> ValueOptions, types |-> None] }

ExampleValueLines ==
    { <<107,107,61,103,108,111,98,97,108,58,99,116,114,108,43,115,104,105,102,116,43>>,
                                                   \* "kk=global:ctrl+shift+"
      <<107,107,32,61,32,99,116,114,108,43,114,32,61,32,114,101,108>>,
                                                   \* "kk = ctrl+r = rel"
      <<107,107,32,61,32,99,116,114,108,43,114,32,61,32,82,69,76,32>>,
                                                   \* "kk = ctrl+r = REL "
      <<116,61,105,103,104,116>>,                  \* "t=ight"
      <<116,61,108,105,103,104,116,58>>,           \* "t=light:"
      <<116,61,76,73,71,72,84>>,                   \* "t=LIGHT"
      <<116,32,61,32,78,105,103,104,116>>,         \* "t = Night"
      <<116,61,120,121,122>> }                     \* "t=xyz"

ValueLines ==
    { k \o <<61>> \o v : k \in {<<107,107>>, <<116>>},
                         v \in SeqsUpTo(ValueAlphabet, MaxValueLen) }
    \cup ExampleValueLines

InitValues ==
    /\ IdleStore
    /\ schema \in ValueSchemas
    /\ line \in ValueLines
    /\ character = Len(line)

SpecValues == InitValues /\ [][CompleteOnLine]_vars

IsValueOfType(type) ==
    /\ Classified
    /\ Ctx.tag = "Value"
    /\ response.tag = "ok"
    /\ IsSome(OptionsGet(schema, Ctx.key))
    /\ Unwrap(OptionsGet(schema, Ctx.key)).option_type = type

\* the items of the response of one kind, in order
ItemsOfKind(kind) ==
    LET Is(item) == item.kind = kind
    IN SelectSeq(response.items, Is)

\* the names of a group of the schema's keybind definition, or none
KeybindGroup(group) ==
    IF schema.types = <<>> THEN <<>>
    ELSE IF schema.types[1].keybind = <<>> THEN <<>>
    ELSE IF schema.types[1].keybind[1][group] = <<>> THEN <<>>
    ELSE schema.types[1].keybind[1][group][1]

\* s with every A-Z replaced by a-z
Lower(s) == [i \in 1..Len(s) |-> IF s[i] >= 65 /\ s[i] <= 90 THEN s[i] + 32 ELSE s[i]]

\* whether p occurs in s
Occurs(p, s) == \E i \in 0..(Len(s) - Len(p)) : SubSeq(s, i + 1, i + Len(p)) = p

\* the text after the last '=' of a partial that holds one, lower-cased and
\* trimmed
TypedAction ==
    LET last == Max({i \in 1..Len(Ctx.partial) : Ctx.partial[i] = 61})
    IN trim(Lower(SubSeq(Ctx.partial, last + 1, Len(Ctx.partial))))

HasEq(p) == \E i \in 1..Len(p) : p[i] = 61

\* C11: for a keybind option, a non-empty partial without '=' yields only
\* prefix ("{prefix}:") and modifier ("{modifier}+") candidates and no
\* action; a partial containing '=' yields as actions exactly those whose
\* name contains, ignoring case, the trimmed text after the last '='; an
\* empty partial yields every action.
C11_KeybindActions ==
    IsValueOfType("keybind") =>
        /\ \A i \in 1..Len(response.items) :
              \/ /\ response.items[i].kind = "KEYWORD"
                 /\ \/ \E j \in 1..Len(KeybindGroup("prefixes")) :
                          response.items[i].label = KeybindGroup("prefixes")[j] \o <<58>>
                    \/ \E j \in 1..Len(KeybindGroup("modifiers")) :
                          response.items[i].label = KeybindGroup("modifiers")[j] \o <<43>>
              \/ /\ response.items[i].kind = "FUNCTION"
                 /\ Ctx.partial = <<>> \/ HasEq(Ctx.partial)
        /\ (Ctx.partial # <<>> /\ ~HasEq(Ctx.partial)) => ItemsOfKind("FUNCTION") = <<>>
        /\ Ctx.partial = <<>> =>
              Labels(ItemsOfKind("FUNCTION")) = KeybindGroup("actions")
        /\ HasEq(Ctx.partial) =>
              LET Named(a) == Occurs(TypedAction, Lower(a))
              IN Labels(ItemsOfKind("FUNCTION"))
                    = SelectSeq(KeybindGroup("actions"), Named)

C11_Witness ==
    /\ IsValueOfType("keybind")
    /\ line = <<107,107,32,61,32,99,116,114,108,43,114,32,61,32,114,101,108>>
    /\ Labels(ItemsOfKind("FUNCTION"))
          = << <<114,101,108,111,97,100,95,99,111,110,102,105,103>>, <<82,69,76>> >>

----------------------------------------------------------------------------
(* Properties of theme completion.                                          *)

\* "light:"
LightPrefix == <<108,105,103,104,116,58>>

\* the fifteen built-in themes, each once
FifteenThemes ==
    /\ Len(themes) = 15
    /\ \A i, j \in 1..Len(themes) : i # j => themes[i] # themes[j]

\* the snippet item: label "light:...,dark:...", a template whose
\* placeholders default to Catppuccin Latte and Catppuccin Mocha
SnippetShape ==
    \A i \in 1..Len(response.items) :
        response.items[i].kind = "SNIPPET" =>
            /\ response.items[i].label =
                  <<108,105,103,104,116,58,46,46,46,44,100,97,114,107,58,46,46,46>>
            /\ response.items[i].insert_text_format = <<"SNIPPET">>
            /\ response.items[i].insert_text =
                  << <<108,105,103,104,116,58,36,123,49,58>>
                     \o themes[5] \o <<125,44,100,97,114,107,58,36,123,50,58>>
                     \o themes[2] \o <<125>> >>

\* the response holds the themes matching q, then the snippet if offered
ThemeResponse(q, offered) ==
    LET Matches(t) == Occurs(q, Lower(t))
    IN /\ FifteenThemes
       /\ SnippetShape
       /\ Labels(ItemsOfKind("VALUE")) = SelectSeq(themes, Matches)
       /\ Len(ItemsOfKind("SNIPPET")) = (IF offered THEN 1 ELSE 0)
       /\ Len(response.items)
             = Len(ItemsOfKind("VALUE")) + Len(ItemsOfKind("SNIPPET"))

\* C12 as stated: theme completion returns the built-in themes containing
\* the partial, ignoring case, plus the snippet exactly when the partial is
\* empty or a prefix of "light:".
C12_Theme_AsStated ==
    IsValueOfType("theme") =>
        ThemeResponse(Lower(Ctx.partial),
                      \/ Ctx.partial = <<>>
                      \/ /\ Len(Ctx.partial) <= Len(LightPrefix)
                         /\ SubSeq(LightPrefix, 1, Len(Ctx.partial)) = Ctx.partial)

\* C12 amended: with q the partial lower-cased and trimmed, theme completion
\* returns the members of the fifteen built-in themes whose lower-cased name
\* contains q, plus exactly one snippet item "light:...,dark:..." when q is
\* empty or occurs anywhere in "light:", and no snippet for any other q.
C12_Theme ==
    IsValueOfType("theme") =>
        ThemeResponse(trim(Lower(Ctx.partial)),
                      Occurs(trim(Lower(Ctx.partial)), LightPrefix))

C12_Witness ==
    /\ IsValueOfType("theme")
    /\ line = <<116,61,105,103,104,116>>
    /\ Len(ItemsOfKind("SNIPPET")) = 1
    /\ Len(ItemsOfKind("VALUE")) = 5

----------------------------------------------------------------------------
(* The editor extension (src/lib.rs): locating, downloading and caching the *)
(* server binary.  Paths are strings, hence byte sequences; the working     *)
(* directory is the set of paths that are regular files.                    *)

\* the string literals of lib.rs
Name ==
    [ bin     |-> <<103, 104, 111, 115, 116, 116, 121, 45, 108, 115, 112>>,      \* "ghostty-lsp"
      winbin  |-> <<103, 104, 111, 115, 116, 116, 121, 45, 108, 115, 112, 46, 101, 120, 101>>,   \* "ghostty-lsp.exe"
      exe     |-> <<46, 101, 120, 101>>,                                 \* ".exe"
      prefix  |-> <<103, 104, 111, 115, 116, 116, 121, 45, 108, 115, 112, 45>>,  \* "ghostty-lsp-"
      darwin  |-> <<100, 97, 114, 119, 105, 110>>,               \* "darwin"
      linux   |-> <<108, 105, 110, 117, 120>>,               \* "linux"
      windows |-> <<119, 105, 110, 100, 111, 119, 115>>,         \* "windows"
      aarch64 |-> <<97, 97, 114, 99, 104, 54, 52>>,             \* "aarch64"
      x86_64  |-> <<120, 56, 54, 95, 54, 52>>,             \* "x86_64"
      targz   |-> <<46, 116, 97, 114, 46, 103, 122>>,           \* ".tar.gz"
      dash    |-> <<45>>,
      slash   |-> <<47>> ]

ends_with(s, suffix) ==
    /\ Len(suffix) <= Len(s)
    /\ SubSeq(s, Len(s) - Len(suffix) + 1, Len(s)) = suffix

strip_suffix(s, suffix) ==
    IF ends_with(s, suffix) THEN Some(SubSeq(s, 1, Len(s) - Len(suffix))) ELSE None

unwrap_or(o, default) == IF IsSome(o) THEN Unwrap(o) ELSE default

binary_name(os) == IF os = "Windows" THEN Name.winbin ELSE Name.bin

stem(bin) == unwrap_or(strip_suffix(bin, Name.exe), bin)

\* format!("{dir}/{name}")
Join(dir, name) == dir \o Name.slash \o name

\* fs::metadata(&candidate).map(|m| m.is_file()).unwrap_or(false)
is_file(fs, path) == path \in fs

\* for candidate in candidates { if is_file { return Some(candidate) } } None
FirstFile(candidates, fs) ==
    LET hits == {i \in 1..Len(candidates) : is_file(fs, candidates[i])}
    IN IF hits = {} THEN None ELSE Some(candidates[Min(hits)])

existing_candidates(bin, st) ==
    << bin, Join(st, bin), Join(bin, bin), Join(bin, Join(st, bin)) >>

resolve_existing_binary_path(bin, st, fs) ==
    FirstFile(existing_candidates(bin, st), fs)

version_candidates(dir, bin, st) ==
    << Join(dir, bin), Join(dir, Join(st, bin)), Join(dir, Join(bin, bin)) >>

resolve_in_version_dir(dir, bin, st, fs) ==
    FirstFile(version_candidates(dir, bin, st), fs)

os_name(os) ==
    CASE os = "Mac" -> Name.darwin
      [] os = "Linux" -> Name.linux
      [] os = "Windows" -> Name.windows

\* None for an architecture the match does not name
arch_name(arch) ==
    CASE arch = "Aarch64" -> Some(Name.aarch64)
      [] arch = "X8664" -> Some(Name.x86_64)
      [] OTHER -> None

\* format!("ghostty-lsp-{}-{}.tar.gz", os_name, arch_name)
asset_name(osn, archn) == Name.prefix \o osn \o Name.dash \o archn \o Name.targz

\* format!("ghostty-lsp-{}", release.version)
version_dir(version) == Name.prefix \o version

\* the entry of "." a path lies in: the path up to its first '/'
TopEntry(path) ==
    LET hits == {i \in 1..Len(path) : path[i] = Name.slash[1]}
    IN IF hits = {} THEN path ELSE SubSeq(path, 1, Min(hits) - 1)

\* remove_dir_all of every other entry whose name starts with "ghostty-lsp-"
cleanup(fs, dir) ==
    {f \in fs : ~(/\ TopEntry(f) # f
                  /\ TopEntry(f) # dir
                  /\ starts_with(TopEntry(f), Name.prefix))}

\* what the archive holds, relative to the directory it is extracted into
Layout(k, bin, st) ==
    CASE k = 1 -> bin
      [] k = 2 -> Join(st, bin)
      [] k = 3 -> Join(bin, bin)
      [] OTHER -> <<82, 69, 65, 68, 77, 69>>   \* "README": no binary

DownloadErr(fs, net) == [ok |-> FALSE, path |-> <<>>, files |-> fs, net |-> net]

DownloadOk(path, fs) == [ok |-> TRUE, path |-> path, files |-> fs, net |-> TRUE]

\* o holds what the host answers: o.release (None: latest_github_release
\* fails), o.download (None: download_file fails, else the archive layout),
\* o.chmod (make_file_executable succeeds), o.cleanup (read_dir and
\* remove_dir_all succeed)
try_download_binary(bin, st, os, arch, fs, o) ==
    IF ~IsSome(arch_name(arch)) THEN DownloadErr(fs, FALSE)
    ELSE IF ~IsSome(o.release) THEN DownloadErr(fs, TRUE)
    ELSE
      LET release == Unwrap(o.release)
          asset == asset_name(os_name(os), Unwrap(arch_name(arch)))
          dir == version_dir(release.version)
          present == resolve_in_version_dir(dir, bin, st, fs)
          extracted == fs \cup {Join(dir, Layout(Unwrap(o.download), bin, st))}
          found == resolve_in_version_dir(dir, bin, st, extracted)
      IN IF asset \notin release.assets THEN DownloadErr(fs, TRUE)
         ELSE IF IsSome(present)
              THEN IF o.chmod THEN DownloadOk(Unwrap(present), fs)
                   ELSE DownloadErr(fs, TRUE)
         ELSE IF ~IsSome(o.download) THEN DownloadErr(fs, TRUE)
         ELSE IF ~IsSome(found) THEN DownloadErr(extracted, TRUE)
         ELSE IF ~o.chmod THEN DownloadErr(extracted, TRUE)
         ELSE DownloadOk(Unwrap(found),
                         IF o.cleanup THEN cleanup(extracted, dir) ELSE extracted)

\* the fallback path caching the name it returns
FallbackCache_Name(bin) == Some(bin)

\* the fallback path leaves cached_binary_path as it is: None
FallbackCache(bin) == None

\* one record of the history: what a call returned and what it consulted
Call(outcome, returned, fs, net, download) ==
    [outcome |-> outcome, returned |-> returned, fs |-> fs, net |-> net,
     download |-> download]

get_or_download_lsp_binary(cache, fs, plat, o) ==
    IF IsSome(cache)
    THEN [path |-> Unwrap(cache), cache |-> cache, files |-> fs,
          call |-> Call("cached", Unwrap(cache), FALSE, FALSE, FALSE)]
    ELSE
      LET bin == binary_name(plat[1])
          st == stem(bin)
          existing == resolve_existing_binary_path(bin, st, fs)
          dl == try_download_binary(bin, st, plat[1], plat[2], fs, o)
      IN IF IsSome(existing)
         THEN [path |-> Unwrap(existing), cache |-> Some(Unwrap(existing)),
               files |-> fs,
               call |-> Call("resolved", Unwrap(existing), TRUE, FALSE, FALSE)]
         ELSE IF dl.ok
         THEN [path |-> dl.path, cache |-> Some(dl.path), files |-> dl.files,
               call |-> Call("downloaded", dl.path, TRUE, dl.net, TRUE)]
         ELSE [path |-> bin, cache |-> FallbackCache(bin), files |-> dl.files,
               call |-> Call("fallback", bin, TRUE, dl.net, TRUE)]

MaxCalls == 3
MaxVersions == 2

\* env is the value of GHOSTTY_LSP_PATH in worktree.shell_env(), if set
language_server_command(env, o) ==
    /\ IF IsSome(env)
       THEN /\ command' = env
            /\ UNCHANGED <<cached_binary_path, files, log>>
       ELSE /\ Len(log) < MaxCalls
            /\ LET r == get_or_download_lsp_binary(cached_binary_path, files,
                                                   platform, o)
               IN /\ command' = Some(r.path)
                  /\ cached_binary_path' = r.cache
                  /\ files' = r.files
                  /\ log' = Append(log, r.call)
    /\ UNCHANGED <<platform, schema, documents, msg, response, line, character,
                   context, tasks, lock, removed>>

\* the working directory is shared: a file of it goes away
FileRemoved(f) ==
    /\ f \in files
    /\ files' = files \ {f}
    /\ UNCHANGED <<cached_binary_path, platform, command, log, schema, documents,
                   msg, response, line, character, context, tasks, lock, removed>>

\* each operating system, each supported architecture, an unsupported one
Platforms ==
    {<<os, "X8664">> : os \in {"Mac", "Linux", "Windows"}}
    \cup {<<"Linux", "Aarch64">>, <<"Windows", "X86">>}

\* "v1", "v2", ...
Versions == {<<118, 48 + i>> : i \in 1..MaxVersions}

AllAssets ==
    {asset_name(os_name(os), a) : os \in {"Mac", "Linux", "Windows"},
                                  a \in {Name.aarch64, Name.x86_64}}

Releases ==
    {[version |-> v, assets |-> a] :
        v \in Versions, a \in {AllAssets, {asset_name(Name.linux, Name.x86_64)}}}

Outcomes ==
    [release : {None} \cup {Some(r) : r \in Releases},
     download : {None} \cup {Some(k) : k \in 1..4},
     chmod : BOOLEAN,
     cleanup : BOOLEAN]

\* "/bin/lsp"
CustomPath == <<47, 98, 105, 110, 47, 108, 115, 112>>

PathPool(plat) ==
    LET bin == binary_name(plat[1])
        st == stem(bin)
        Range(q) == {q[i] : i \in 1..Len(q)}
    IN Range(existing_candidates(bin, st))
       \cup UNION {Range(version_candidates(version_dir(v), bin, st)) : v \in Versions}

InitLauncher ==
    /\ ServerIdle
    /\ schema = EmptySchema
    /\ line = <<>>
    /\ character = 0
    /\ cached_binary_path = None
    /\ platform \in Platforms
    /\ files \in {{}} \cup {{p} : p \in PathPool(platform)}
    /\ command = None
    /\ log = <<>>

NextLauncher ==
    \/ \E env \in {None, Some(CustomPath)}, o \in Outcomes :
          language_server_command(env, o)
    \/ \E f \in files : FileRemoved(f)

SpecLauncher == InitLauncher /\ [][NextLauncher]_vars

----------------------------------------------------------------------------
(* Properties of the launcher's cache.                                      *)

Succeeded(call) == call.outcome \in {"resolved", "downloaded"}

\* C13: over any sequence of get_or_download_lsp_binary calls, once a call
\* has resolved an existing binary or downloaded one, cached_binary_path is
\* that path and every later call returns it without consulting the
\* filesystem or the network; a call in which resolution and download both
\* fail returns the bare binary name and caches nothing, so that the next
\* call runs resolution again and, unless that succeeds, the download.
C13_LauncherCache ==
    \A i \in 1..Len(log) :
        /\ Succeeded(log[i]) =>
              /\ cached_binary_path = Some(log[i].returned)
              /\ \A j \in (i + 1)..Len(log) :
                    /\ log[j].returned = log[i].returned
                    /\ ~log[j].fs
                    /\ ~log[j].net
        /\ log[i].outcome = "fallback" =>
              /\ log[i].returned = binary_name(platform[1])
              /\ i = Len(log) => cached_binary_path = None
              /\ i < Len(log) =>
                    /\ log[i + 1].fs
                    /\ log[i + 1].outcome = "resolved" \/ log[i + 1].download

\* a failed call, then a download, then a call answered from the cache
\* although the downloaded file is gone
C13_Witness ==
    /\ Len(log) = 3
    /\ log[1].outcome = "fallback"
    /\ log[2].outcome = "downloaded"
    /\ log[3].outcome = "cached"
    /\ log[3].returned = log[2].returned
    /\ ~is_file(files, log[3].returned)
    /\ command = Some(Unwrap(cached_binary_path))

====
